---- MODULE Spec2Model ----
\* Model of lande.fermi.likelihood.variability.CombinedVariabilityTester:
\* time-bin planning, the per-bin fit loop, the TS_var aggregation and the
\* handling of the caller's region; and of the automatic classifier of
\* lande.fermi.pipeline.pwncat2.interp.classify with its older version.
EXTENDS Integers, Sequences, FiniteSets, TLC

VARIABLES
    nbins,          \* keyword option nbins: None or an integer
    tstarts,        \* keyword option tstarts: None or a list of times
    tstops,         \* keyword option tstops: None or a list of times
    savedir,        \* keyword option savedir: None or a directory
    do_gtlike,      \* keyword option do_gtlike
    ft1files,       \* roi.sa.pixeldata.ft1files: one event file or a list of them
    pc,             \* position of the constructor
    exc,            \* the exception that ended the constructor, if any
    save_data,      \* self.save_data
    earliest_time,  \* self.earliest_time
    latest_time,    \* self.latest_time
    time,           \* self.time: starts and stops, integer arrays
    all_time,       \* self.all_time: per backend the all-time fit
    bands,          \* self.bands
    subdirs,        \* per-bin working directories that exist
    nfit,           \* number of fit calls made on any backend
    TS_var,         \* self.TS_var: one entry per backend
    results,        \* self.results
    refit_background,     \* keyword option refit_background
    refit_other_sources,  \* keyword option refit_other_sources
    always_upper_limit,   \* keyword option always_upper_limit
    ul_confidence,        \* keyword option ul_confidence
    roi_state,      \* the per-bin backend being fitted: which sources are free
    cur,            \* what the backend being fitted answers in this bin
    res,            \* the results dict of the per-bin fit in progress
    calls,          \* the calls that returned from the backends, in order
    ul_calls,       \* the calls made on the upper-limit collaborator
    run,            \* 1 in a first run, 2 in a re-run with identical inputs
    first_report,   \* the results of the first run, kept for the re-run
    replay,         \* the backend answers of the first run, for the re-run
    roi,            \* self.roi: the model state of the caller's region
    saved_state,    \* saved_state of __init__: None or a snapshot of roi
    best_gtlike_state,  \* self.best_gtlike_state: None or a snapshot
    pwn_results,    \* the classifier's loader.get_results(pwn)
    classification, \* what PWNAutomaticClassifier.get_classification returned
    old_classification  \* what get_automatic_clasification returned

vars == << nbins, tstarts, tstops, savedir, do_gtlike, ft1files, pc, exc,
           save_data, earliest_time, latest_time, time, all_time, bands,
           subdirs, nfit, TS_var, results, refit_background,
           refit_other_sources, always_upper_limit, ul_confidence, roi_state,
           cur, res, calls, ul_calls, run, first_report, replay, roi,
           saved_state, best_gtlike_state, pwn_results, classification,
           old_classification >>

\* the keyword options no step changes, the state of a per-bin fit in
\* progress, and the state of a re-run
options == << refit_background, refit_other_sources, always_upper_limit,
              ul_confidence >>
stepvars == << roi_state, cur, res >>
rerunvars == << run, first_report, replay >>

\* the caller's region with its snapshots, and the state of the classifier
roivars == << roi, saved_state, best_gtlike_state >>
classifyvars == << pwn_results, classification, old_classification >>

----------------------------------------------------------------------------
\* Python's None and optional values: None is <<>>, a present value v is <<v>>.
None == << >>
Some(v) == << v >>
IsNone(x) == Len(x) = 0
Get(x) == x[1]

\* Floating-point numbers are modelled as exact fractions <<n, d>> in lowest
\* terms with d > 0; <<0, 0>> is not-a-number, <<1, 0>> and <<-1, 0>> are the
\* infinities (rounding, overflow and signed zeros are not modelled).
NaN == << 0, 0 >>
Abs(n) == IF n < 0 THEN -n ELSE n
Sgn(n) == IF n < 0 THEN -1 ELSE IF n > 0 THEN 1 ELSE 0

RECURSIVE GCD(_, _)
GCD(a, b) == IF b = 0 THEN a ELSE GCD(b, a % b)

Norm(n, d) ==
    IF d = 0 THEN << Sgn(n), 0 >>
    ELSE LET s == IF d < 0 THEN -1 ELSE 1
             g == GCD(Abs(n), Abs(d))
         IN  << (s * n) \div g, (s * d) \div g >>

Flt(n) == << n, 1 >>
IsNaN(x) == x = NaN
IsInf(x) == x[2] = 0 /\ x[1] # 0
FMul(x, y) == Norm(x[1] * y[1], x[2] * y[2])
FNeg(x) == << -x[1], x[2] >>
FAdd(x, y) ==
    IF IsInf(x) /\ IsInf(y) THEN (IF x = y THEN x ELSE NaN)
    ELSE Norm(x[1] * y[2] + y[1] * x[2], x[2] * y[2])
FSub(x, y) == FAdd(x, FNeg(y))
FRecip(x) == IF x[1] = 0 /\ x[2] # 0 THEN << 1, 0 >> ELSE Norm(x[2], x[1])
FDiv(x, y) == FMul(x, FRecip(y))
\* x < y for numbers that are not NaN
FLess(x, y) ==
    IF x[2] # 0 /\ y[2] # 0 THEN x[1] * y[2] < y[1] * x[2] ELSE x[1] < y[1]

\* min() and max() of a non-empty sequence of floats
FMin(s) == CHOOSE x \in { s[j] : j \in 1..Len(s) } :
               \A y \in { s[j] : j \in 1..Len(s) } : ~ FLess(y, x)
FMax(s) == CHOOSE x \in { s[j] : j \in 1..Len(s) } :
               \A y \in { s[j] : j \in 1..Len(s) } : ~ FLess(x, y)

----------------------------------------------------------------------------
\* get_time_range: an event file is the sequence of rows of its GTI table,
\* each row [START, STOP]; a list of files is a sequence of files wrapped as
\* [list |-> ...], a single file is [file |-> ...].
IsList(files) == "list" \in DOMAIN files

file_time_range(rows) ==
    << FMin([j \in 1..Len(rows) |-> rows[j].START]),
       FMax([j \in 1..Len(rows) |-> rows[j].STOP]) >>

\* get_time_range taking the range of a list from its first file alone
get_time_range_first_file(files) ==
    IF IsList(files) THEN file_time_range(files.list[1])
    ELSE file_time_range(files.file)

get_time_range(files) ==
    IF IsList(files)
    THEN LET r == [j \in 1..Len(files.list) |-> file_time_range(files.list[j])]
         IN  << FMin([j \in 1..Len(r) |-> r[j][1]]),
                FMax([j \in 1..Len(r) |-> r[j][2]]) >>
    ELSE file_time_range(files.file)

\* np.linspace with endpoint=False: the step is (stop-start)/num
linspace_no_endpoint(start, stop, num) ==
    LET step == FDiv(FSub(stop, start), Flt(num))
    IN  [j \in 1..num |-> FAdd(start, FMul(Flt(j - 1), step))]

\* np.linspace(start, stop, num): num samples, the endpoint included
linspace(start, stop, num) ==
    LET step == FDiv(FSub(stop, start), Flt(num - 1))
    IN  [j \in 1..num |->
            IF j = num /\ num > 1 THEN stop
            ELSE FAdd(start, FMul(Flt(j - 1), step))]

\* np.floor in the place of np.round
np_round_floor(x) == x[1] \div x[2]

\* np.round of a finite float: to the nearest integer, a tie to the even one
np_round(x) ==
    LET fl == x[1] \div x[2]
        r2 == 2 * (x[1] - fl * x[2])
    IN  IF r2 < x[2] THEN fl
        ELSE IF r2 > x[2] THEN fl + 1
        ELSE IF fl % 2 = 0 THEN fl ELSE fl + 1

\* rounding to the nearest second in the place of the conversion to int
as_int_rounded(x) == (2 * x[1] + x[2]) \div (2 * x[2])

\* conversion of a finite float to int (astype(int), dtype=int): towards zero
as_int(x) == IF x[1] >= 0 THEN x[1] \div x[2] ELSE -((-x[1]) \div x[2])

----------------------------------------------------------------------------
\* CombinedVariabilityTester._setup_time_bins as a function of the keyword
\* options and the event files: the exception raised (if any) and the values
\* of self.nbins, self.earliest_time, self.latest_time and self.time after it.
EmptyDict == << >>

\* _setup_time_bins without the check of line 189: with all three options
\* given, nbins wins
setup_time_bins_nbins_wins(nb, ts, tp, files) ==
    LET unset == [exc |-> None, nbins |-> nb, earliest_time |-> None,
                  latest_time |-> None, time |-> EmptyDict]
    IN
    IF IsNone(nb) /\ (IsNone(ts) /\ IsNone(tp))
    THEN [unset EXCEPT !.exc = Some("Exception")]
    ELSE IF (IsNone(ts) /\ ~ IsNone(tp)) \/ (~ IsNone(ts) /\ IsNone(tp))
    THEN [unset EXCEPT !.exc = Some("Exception")]
    ELSE
    LET range == get_time_range(files)
        ranged == [unset EXCEPT !.earliest_time = Some(range[1]),
                                !.latest_time = Some(range[2])]
    IN
    IF ~ IsNone(nb)
    THEN LET b == [j \in 1..(Get(nb) + 1) |->
                      np_round(linspace(range[1], range[2], Get(nb) + 1)[j])]
         IN  [ranged EXCEPT !.time =
                 [starts |-> SubSeq(b, 1, Len(b) - 1),
                  stops  |-> SubSeq(b, 2, Len(b))]]
    ELSE IF Len(Get(ts)) # Len(Get(tp))
    THEN [ranged EXCEPT !.exc = Some("AssertionError")]
    ELSE [ranged EXCEPT
             !.nbins = Some(Len(Get(ts))),
             !.time = [starts |-> [j \in 1..Len(Get(ts)) |-> as_int(Get(ts)[j])],
                       stops  |-> [j \in 1..Len(Get(tp)) |-> as_int(Get(tp)[j])]]]

setup_time_bins(nb, ts, tp, files) ==
    LET unset == [exc |-> None, nbins |-> nb, earliest_time |-> None,
                  latest_time |-> None, time |-> EmptyDict]
    IN
    IF IsNone(nb) /\ (IsNone(ts) /\ IsNone(tp))
    THEN [unset EXCEPT !.exc = Some("Exception")]
    ELSE IF ~ IsNone(nb) /\ (~ IsNone(ts) /\ ~ IsNone(tp))
    THEN [unset EXCEPT !.exc = Some("Exception")]
    ELSE IF (IsNone(ts) /\ ~ IsNone(tp)) \/ (~ IsNone(ts) /\ IsNone(tp))
    THEN [unset EXCEPT !.exc = Some("Exception")]
    ELSE
    LET range == get_time_range(files)
        ranged == [unset EXCEPT !.earliest_time = Some(range[1]),
                                !.latest_time = Some(range[2])]
    IN
    IF ~ IsNone(nb)
    THEN LET b == [j \in 1..(Get(nb) + 1) |->
                      np_round(linspace(range[1], range[2], Get(nb) + 1)[j])]
         IN  [ranged EXCEPT !.time =
                 [starts |-> SubSeq(b, 1, Len(b) - 1),
                  stops  |-> SubSeq(b, 2, Len(b))]]
    ELSE IF Len(Get(ts)) # Len(Get(tp))
    THEN [ranged EXCEPT !.exc = Some("AssertionError")]
    ELSE [ranged EXCEPT
             !.nbins = Some(Len(Get(ts))),
             !.time = [starts |-> [j \in 1..Len(Get(ts)) |-> as_int(Get(ts)[j])],
                       stops  |-> [j \in 1..Len(Get(tp)) |-> as_int(Get(tp)[j])]]]

----------------------------------------------------------------------------
\* compute_TS_var
f == << 1, 50 >>                      \* CombinedVariabilityTester.f = 0.02

RECURSIVE np_sum(_)
np_sum(a) == IF Len(a) = 0 THEN Flt(0) ELSE FAdd(a[1], np_sum(Tail(a)))

\* 2*ll1-ll0 in the place of 2*(ll1-ll0)
lr_statistic_unbracketed(ll1, ll0) ==
    [j \in 1..Len(ll1) |-> FSub(FMul(Flt(2), ll1[j]), ll0[j])]

\* TS_var = 2*(ll1-ll0), elementwise
lr_statistic(ll1, ll0) ==
    [j \in 1..Len(ll1) |-> FMul(Flt(2), FSub(ll1[j], ll0[j]))]

\* the quotient without df**2 in its denominator: df**2/(f**2*F0**2)
fraction_of_tolerance(F, F0) ==
    [j \in 1..Len(F) |->
        LET df == FSub(F[j], F0)
        IN  FDiv(FMul(df, df), FMul(FMul(f, f), FMul(F0, F0)))]

\* fraction = df**2/(df**2 + f**2*F0**2), elementwise, with df = F - F0
fraction(F, F0) ==
    [j \in 1..Len(F) |->
        LET df == FSub(F[j], F0)
        IN  FDiv(FMul(df, df),
                 FAdd(FMul(df, df), FMul(FMul(f, f), FMul(F0, F0))))]

\* the fraction used as it is, without the np.where
good_fraction_unguarded(F, F0) == fraction(F, F0)

\* good_fraction = np.where(~np.isnan(fraction), fraction, 1)
good_fraction(F, F0) ==
    LET fr == fraction(F, F0)
    IN  [j \in 1..Len(fr) |-> IF ~ IsNaN(fr[j]) THEN fr[j] ELSE Flt(1)]

\* the array TS_var after TS_var *= good_fraction
damped_statistic(type, bnds, alltime) ==
    LET ll1 == [j \in 1..Len(bnds) |-> bnds[j][type].ll_1]
        ll0 == [j \in 1..Len(bnds) |-> bnds[j][type].ll_0]
        F   == [j \in 1..Len(bnds) |-> bnds[j][type].flux.flux]
        F0  == alltime[type].flux.flux
        raw == lr_statistic(ll1, ll0)
        gf  == good_fraction(F, F0)
    IN  [j \in 1..Len(bnds) |-> FMul(raw[j], gf[j])]

\* every backend's bins compared with the all-time flux of pointlike
compute_TS_var_pointlike_F0(type, bnds, alltime) ==
    np_sum(damped_statistic(type, bnds,
                            [alltime EXCEPT ![type] = alltime.pointlike]))

compute_TS_var(type, bnds, alltime) ==
    np_sum(damped_statistic(type, bnds, alltime))

----------------------------------------------------------------------------
\* Bounds of the model and the inputs drawn within them.
MaxNbins == 3        \* largest nbins option of the planning runs
MaxTimes == 2        \* longest explicit tstarts / tstops list
MaxFiles == 2        \* longest list of event files
MaxBands == 2        \* largest nbins option of the aggregation runs

min_ts == 4          \* default of the min_ts option

row(a, b) == [START |-> a, STOP |-> b]
\* two event files: the GTI rows of the first are not in time order
FileA == << row(<< 5, 2 >>, Flt(4)), row(<< 3, 2 >>, << 5, 2 >>) >>
FileB == << row(Flt(0), Flt(1)) >>
Files == { FileA, FileB }

SeqsUpTo(S, n) == UNION { [1..m -> S] : m \in 0..n }
SeqsFrom(S, lo, hi) == UNION { [1..m -> S] : m \in lo..hi }

Ft1Options ==
    { [file |-> x] : x \in Files }
        \cup { [list |-> l] : l \in SeqsFrom(Files, 1, MaxFiles) }
TimeValues == { << 3, 2 >>, Flt(4) }
TimeOptions == { None } \cup { Some(l) : l \in SeqsUpTo(TimeValues, MaxTimes) }

\* What a backend reports for one per-bin fit, and for the all-time fit.
outcome(ll0, ll1, flux, ts) == [ll_0 |-> ll0, ll_1 |-> ll1, flux |-> flux, TS |-> ts]

OneOutcome == { outcome(Flt(-3), Flt(-2), Flt(51), Flt(30)) }
OneFlux == { Flt(50) }

PointlikeOutcomes ==
    { outcome(Flt(-3), l, x, IF IsNaN(x) THEN Flt(0) ELSE Flt(30)) :
        l \in { Flt(-3), Flt(-2) }, x \in { NaN, Flt(0), Flt(50), Flt(51) } }
GtlikeOutcomes ==
    { outcome(Flt(-5), Flt(-5), Flt(52), Flt(30)),
      outcome(Flt(-5), Flt(-3), NaN, Flt(0)),
      outcome(Flt(-5), Flt(-3), Flt(52), Flt(30)) }
PointlikeFluxes == { Flt(0), Flt(50) }
GtlikeFluxes == { NaN, Flt(50) }

Backends(gt) == IF gt THEN { "pointlike", "gtlike" } ELSE { "pointlike" }

----------------------------------------------------------------------------
\* Inputs of the stepwise runs and of the re-runs.
MaxFitBins == 2      \* largest nbins option of the stepwise runs and re-runs

\* per-bin answers with TS below min_ts and at min_ts
FitOutcomes ==
    { outcome(Flt(-3), Flt(-2), Flt(51), Flt(0)),
      outcome(Flt(-3), Flt(-1), Flt(52), Flt(min_ts)) }
RerunOutcomes ==
    { outcome(Flt(-3), Flt(-2), Flt(51), Flt(30)),
      outcome(Flt(-3), Flt(-2), NaN, Flt(0)) }
\* per-bin answers for the damping: ll_1 below and above ll_0, fluxes that
\* are not a number, zero, and on either side of the all-time flux
WeightOutcomes ==
    { outcome(Flt(-3), l, x, Flt(30)) :
        l \in { Flt(-4), Flt(-2) }, x \in { NaN, Flt(0), Flt(49), Flt(52) } }
\* ul_confidence: the default 0.95 and 0.9
Confidences == { << 19, 20 >>, << 9, 10 >> }
\* what mkdtemp(prefix=self.savedir_prefix) may return
OneTempDir == { "/scratch/tmpA" }
TwoTempDirs == { "/scratch/tmpA", "/scratch/tmpB" }

----------------------------------------------------------------------------
\* the model state of a region or of a fitting object: which sources are free
\* and which fit its parameter values come from
model_state(soi, background, others, params) ==
    [soi |-> soi, background |-> background, others |-> others,
     params |-> params]

\* the caller's region as it is handed to the constructor
roi_on_entry == model_state("free", "free", "free", "entry")

\* the classifier is not part of a variability run
NoClassifier ==
    /\ pwn_results = None
    /\ classification = None
    /\ old_classification = None

Unstarted ==
    /\ pc = "setup_savedir"
    /\ exc = None
    /\ save_data = None
    /\ earliest_time = None
    /\ latest_time = None
    /\ time = EmptyDict
    /\ all_time = EmptyDict
    /\ bands = << >>
    /\ subdirs = { }
    /\ nfit = 0
    /\ TS_var = EmptyDict
    /\ results = None
    /\ roi_state = None
    /\ cur = None
    /\ res = EmptyDict
    /\ calls = << >>
    /\ ul_calls = << >>
    /\ roi = roi_on_entry
    /\ saved_state = None
    /\ best_gtlike_state = None
    /\ NoClassifier

\* the defaults of the options of lines 140-146
DefaultOptions ==
    /\ refit_background = TRUE
    /\ refit_other_sources = TRUE
    /\ always_upper_limit = FALSE
    /\ ul_confidence = << 19, 20 >>

FirstRun ==
    /\ run = 1
    /\ first_report = None
    /\ replay = None

\* Planning runs: every combination of the time-binning options.
Init ==
    /\ nbins \in { None } \cup { Some(n) : n \in 1..MaxNbins }
    /\ tstarts \in TimeOptions
    /\ tstops \in TimeOptions
    /\ savedir \in { None, Some("savedir") }
    /\ do_gtlike \in BOOLEAN
    /\ ft1files \in Ft1Options
    /\ DefaultOptions
    /\ FirstRun
    /\ Unstarted

\* Aggregation runs: a uniform partition, every outcome of the fits.
InitTS ==
    /\ nbins \in { Some(n) : n \in 1..MaxBands }
    /\ tstarts = None
    /\ tstops = None
    /\ savedir = None
    /\ do_gtlike \in BOOLEAN
    /\ ft1files = [list |-> << FileA, FileB >>]
    /\ DefaultOptions
    /\ FirstRun
    /\ Unstarted

\* Stepwise runs: every combination of the fitting options, over a uniform
\* partition or over two explicit bins given out of time order.
InitFit ==
    /\ \/ /\ nbins \in { Some(n) : n \in 1..MaxFitBins }
          /\ tstarts = None
          /\ tstops = None
       \/ /\ nbins = None
          /\ tstarts = Some(<< Flt(4), << 3, 2 >> >>)
          /\ tstops = Some(<< Flt(4), Flt(4) >>)
    /\ savedir \in { None, Some("savedir") }
    /\ do_gtlike \in BOOLEAN
    /\ ft1files = [list |-> << FileA, FileB >>]
    /\ refit_background \in BOOLEAN
    /\ refit_other_sources \in BOOLEAN
    /\ always_upper_limit \in BOOLEAN
    /\ ul_confidence \in Confidences
    /\ FirstRun
    /\ Unstarted

\* Runs that are repeated with identical inputs.
InitRerun ==
    /\ nbins \in { Some(n) : n \in 1..MaxFitBins }
    /\ tstarts = None
    /\ tstops = None
    /\ savedir \in { None, Some("savedir") }
    /\ do_gtlike \in BOOLEAN
    /\ ft1files = [list |-> << FileA, FileB >>]
    /\ DefaultOptions
    /\ FirstRun
    /\ Unstarted

\* In a re-run the backend answers what it answered in the first run.
AllTimeAnswers(PFluxes, GFluxes) ==
    IF run = 2 THEN { replay.all_time } ELSE PFluxes \X GFluxes
BinAnswers(Outcomes) ==
    IF run = 2 THEN { Head(replay.fits) } ELSE Outcomes
Consumed ==
    IF run = 2 THEN [replay EXCEPT !.fits = Tail(replay.fits)] ELSE replay

\* a call on a backend: bin 0 is the all-time data; soi is how the source of
\* interest stands at the call, fits the fits made so far on that backend
call(type, bin, op, soi, fits) ==
    [type |-> type, bin |-> bin, op |-> op, soi |-> soi, fits |-> fits]

\* __init__ up to _setup_savedir
SetupSavedir(TempDirs) ==
    /\ pc = "setup_savedir"
    /\ save_data' = Some(~ IsNone(savedir))
    /\ \E d \in TempDirs :
          savedir' = IF IsNone(savedir) THEN Some(d) ELSE savedir
    /\ pc' = "setup_time_bins"
    /\ UNCHANGED << classifyvars, roivars,
                    nbins, tstarts, tstops, do_gtlike, ft1files, exc,
                    earliest_time, latest_time, time, all_time, bands,
                    subdirs, nfit, TS_var, results, options, stepvars,
                    calls, ul_calls, rerunvars >>

\* PointlikeState(roi): a snapshot of the region's model state
PointlikeState(r) == Some(r)

\* _setup_time_bins, called from __init__; when it returns, __init__ takes
\* the snapshot saved_state = PointlikeState(roi)
SetupTimeBins ==
    /\ pc = "setup_time_bins"
    /\ LET r == setup_time_bins(nbins, tstarts, tstops, ft1files)
       IN  /\ exc' = r.exc
           /\ nbins' = r.nbins
           /\ earliest_time' = r.earliest_time
           /\ latest_time' = r.latest_time
           /\ time' = r.time
           /\ saved_state' = IF IsNone(r.exc) THEN PointlikeState(roi)
                             ELSE saved_state
           /\ pc' = IF IsNone(r.exc) THEN "all_time_fit" ELSE "raised"
    /\ UNCHANGED << classifyvars, roi, best_gtlike_state,
                    tstarts, tstops, savedir, do_gtlike, ft1files, save_data,
                    all_time, bands, subdirs, nfit, TS_var, results, options,
                    stepvars, calls, ul_calls, rerunvars >>

\* all_time_fit: one fit per backend, the source's all-time flux recorded
source_dict(flux, ts) == [flux |-> [flux |-> flux], TS |-> ts]

all_time_calls(gt) ==
    << call("pointlike", 0, "fit", "free", 1) >>
        \o (IF gt THEN << call("gtlike", 0, "fit", "free", 1) >> ELSE << >>)

\* roi.fit(...) on the caller's region: its parameters are now the best fit
all_time_fitted(r) == [r EXCEPT !.params = "all_time"]

\* SuperState(like) of the all-time Gtlike object after its fit: the object
\* is built from the fitted region and fitted again
SuperState(r) == Some([r EXCEPT !.params = "all_time_gtlike"])

AllTimeFit(PFluxes, GFluxes) ==
    /\ pc = "all_time_fit"
    /\ roi' = all_time_fitted(roi)
    /\ best_gtlike_state' = IF do_gtlike THEN SuperState(roi')
                            ELSE best_gtlike_state
    /\ \E a \in AllTimeAnswers(PFluxes, GFluxes) :
          all_time' = IF do_gtlike
                      THEN [pointlike |-> source_dict(a[1], Flt(100)),
                            gtlike |-> source_dict(a[2], Flt(100))]
                      ELSE [pointlike |-> source_dict(a[1], Flt(100))]
    /\ nfit' = nfit + (IF do_gtlike THEN 2 ELSE 1)
    /\ calls' = calls \o all_time_calls(do_gtlike)
    /\ pc' = IF Len(time.starts) = 0 THEN "report" ELSE "bin_pointlike"
    /\ UNCHANGED << classifyvars, saved_state,
                    nbins, tstarts, tstops, savedir, do_gtlike, ft1files, exc,
                    save_data, earliest_time, latest_time, time, bands,
                    subdirs, TS_var, results, options, stepvars, ul_calls,
                    rerunvars >>

\* an upper limit is computed when TS < min_ts or always_upper_limit is set
\* (TS < min_ts is false of a TS that is not a number)
needs_upper_limit_or_equal(ts) ==
    (~ IsNaN(ts) /\ ~ FLess(Flt(min_ts), ts)) \/ always_upper_limit

needs_upper_limit(ts) ==
    (~ IsNaN(ts) /\ FLess(ts, Flt(min_ts))) \/ always_upper_limit

\* the confidence level the upper limit is computed at: cl=0.95
upper_limit_cl == << 19, 20 >>

\* PointlikeUpperLimit(...).todict() / GtlikeUpperLimit(...).todict()
upper_limit_dict == [cl |-> upper_limit_cl]

\* what each_time_fit_pointlike / each_time_fit_gtlike return for an outcome
\* when every step of theirs returns
each_time_fit(o) ==
    [ll_0 |-> o.ll_0, ll_1 |-> o.ll_1, flux |-> [flux |-> o.flux], TS |-> o.TS,
     upper_limit |-> IF needs_upper_limit(o.TS)
                     THEN Some(upper_limit_dict) ELSE None]

\* the calls of one per-bin fit that freezes nothing but the source of
\* interest, in order
fit_calls(type, k) ==
    << call(type, k, "freeze", "frozen", 0),
       call(type, k, "fit", "frozen", 1),
       call(type, k, "ll_0", "frozen", 1),
       call(type, k, "free_norm", "norm", 1),
       call(type, k, "fit", "norm", 2),
       call(type, k, "ll_1", "norm", 2),
       call(type, k, "flux", "norm", 2),
       call(type, k, "TS_reoptimize", "norm", 2) >>

upper_limit_calls(type, k, ts) ==
    IF needs_upper_limit(ts)
    THEN << [type |-> type, bin |-> k, cl |-> upper_limit_cl] >> ELSE << >>

\* days = (tstop-tstart)/(60*60*24) on integers
days_of(tstart, tstop) == (tstop - tstart) \div (60 * 60 * 24)

\* the loop exited after its first pass
after_bin_once(n) == "report"

\* the loop's exit: after the last bin the report is built
after_bin(n) == IF n = Len(time.starts) THEN "report" ELSE "bin_pointlike"

\* One pass of the loop of _test_variability up to the pointlike fit, taken
\* as one step, for runs that refit the background and the other sources and
\* in which no call raises: the bin's directory is made, the band appended
\* and fitted with pointlike (two fits); without gtlike the directory is
\* removed here.
BinPointlike(Outcomes) ==
    /\ pc = "bin_pointlike"
    /\ refit_background /\ refit_other_sources
    /\ LET k == Len(bands) + 1
           tstart == time.starts[k]
           tstop == time.stops[k]
           subdir == << tstart, tstop >>
       IN  /\ \E o \in BinAnswers(Outcomes) :
                 /\ bands' = Append(bands,
                       [tstart |-> tstart, tstop |-> tstop,
                        days |-> days_of(tstart, tstop),
                        pointlike |-> each_time_fit(o)])
                 /\ ul_calls' = ul_calls \o upper_limit_calls("pointlike", k, o.TS)
           /\ calls' = calls \o fit_calls("pointlike", k)
           /\ subdirs' = IF do_gtlike \/ Get(save_data)
                         THEN subdirs \cup { subdir }
                         ELSE subdirs \ { subdir }
           /\ pc' = IF do_gtlike THEN "bin_gtlike" ELSE after_bin(k)
    /\ nfit' = nfit + 2
    /\ replay' = Consumed
    /\ UNCHANGED << classifyvars, roivars,
                    nbins, tstarts, tstops, savedir, do_gtlike, ft1files, exc,
                    save_data, earliest_time, latest_time, time, all_time,
                    TS_var, results, options, stepvars, run, first_report >>

\* The rest of the pass, as one step: the gtlike fit of the band (two fits)
\* and the removal of the bin's directory.
BinGtlike(Outcomes) ==
    /\ pc = "bin_gtlike"
    /\ LET k == Len(bands)
           subdir == << bands[k].tstart, bands[k].tstop >>
       IN  /\ \E o \in BinAnswers(Outcomes) :
                 /\ bands' = [bands EXCEPT ![k] =
                       [tstart |-> bands[k].tstart, tstop |-> bands[k].tstop,
                        days |-> bands[k].days,
                        pointlike |-> bands[k].pointlike,
                        gtlike |-> each_time_fit(o)]]
                 /\ ul_calls' = ul_calls \o upper_limit_calls("gtlike", k, o.TS)
           /\ calls' = calls \o fit_calls("gtlike", k)
           /\ subdirs' = IF Get(save_data) THEN subdirs ELSE subdirs \ { subdir }
           /\ pc' = after_bin(k)
    /\ nfit' = nfit + 2
    /\ replay' = Consumed
    /\ UNCHANGED << classifyvars, roivars,
                    nbins, tstarts, tstops, savedir, do_gtlike, ft1files, exc,
                    save_data, earliest_time, latest_time, time, all_time,
                    TS_var, results, options, stepvars, run, first_report >>

----------------------------------------------------------------------------
\* The same pass of the loop, call by call.

\* what a step leaves alone besides the fit in progress
settled ==
    << nbins, tstarts, tstops, savedir, do_gtlike, ft1files, save_data,
       earliest_time, latest_time, time, all_time, TS_var, results, options,
       run, first_report, roivars, classifyvars >>

\* get_background(roi) and get_sources(roi) of the region: one diffuse
\* background and one neighbouring point source
background_sources == { "diffuse" }
other_sources == { "neighbour" }

\* a new fitting object of a backend, built on the model state s and not yet
\* fitted
fresh_state(type, s) ==
    [type |-> type, soi |-> s.soi, background |-> s.background,
     others |-> s.others, params |-> s.params, fits |-> 0]

\* time_cut(roi, ...): the bin's region, built from copies of the sources of
\* the caller's region as they stand
time_cut(r) == fresh_state("pointlike", r)

\* Gtlike(smaller_roi, ...): a gtlike object built from the bin's region as
\* the pointlike fit left it
Gtlike(s) == fresh_state("gtlike", s)

\* SuperState.restore(like): the object's sources are put back to the saved
\* state, free flags and parameter values alike
restore(saved, like) ==
    [like EXCEPT !.soi = saved.soi, !.background = saved.background,
                 !.others = saved.others, !.params = saved.params]

\* each_time_fit_gtlike without its restore of the all-time state
gtlike_start_unrestored(s, best) == Gtlike(s)

\* the head of each_time_fit_gtlike: the bin's Gtlike object, then
\* self.best_gtlike_state.restore(like)
gtlike_start(s, best) == restore(best, Gtlike(s))

\* results = dict()
empty_results ==
    [ll_0 |-> None, ll_1 |-> None, flux |-> None, TS |-> None,
     upper_limit |-> None]

\* ll(): the likelihood of the object as it stands, given the bin's answers
ll(state, o) == IF state.soi = "frozen" THEN o.ll_0 ELSE o.ll_1

\* the order of each_time_fit_* with the normalization freed first
next_step_norm_first(step) ==
    CASE step = "freeze" -> "free_norm"
      [] step = "free_norm" -> "fit_0"
      [] step = "fit_0" -> "fit_1"
      [] step = "fit_1" -> "upper_limit"
      [] step = "upper_limit" -> "end_fit"

\* the order of the statements of each_time_fit_pointlike / _gtlike
next_step(step) ==
    CASE step = "freeze" -> "fit_0"
      [] step = "fit_0" -> "free_norm"
      [] step = "free_norm" -> "fit_1"
      [] step = "fit_1" -> "upper_limit"
      [] step = "upper_limit" -> "end_fit"

\* an exception caught inside the loop, which goes on to the next bin
raise_to_next_bin(step) ==
    IF Len(bands) < Len(time.starts) THEN "bin_pointlike" ELSE "report"

\* nothing in _test_variability or __init__ catches: an exception raised at
\* any step leaves the constructor
raise_to(step) == "raised"

\* Top of a pass: makedirs(subdir), the band appended, time_cut returns the
\* bin's region, each_time_fit_pointlike begins.
BeginBin(Outcomes) ==
    /\ pc = "bin_pointlike"
    /\ Len(bands) < Len(time.starts)
    /\ LET k == Len(bands) + 1
           tstart == time.starts[k]
           tstop == time.stops[k]
       IN  /\ bands' = Append(bands,
                 [tstart |-> tstart, tstop |-> tstop,
                  days |-> days_of(tstart, tstop)])
           /\ subdirs' = subdirs \cup { << tstart, tstop >> }
    /\ \E o \in BinAnswers(Outcomes) : cur' = Some(o)
    /\ replay' = Consumed
    /\ roi_state' = Some(time_cut(roi))
    /\ res' = empty_results
    /\ pc' = "freeze"
    /\ UNCHANGED << settled, exc, nfit, calls, ul_calls >>

\* Top of a pass in which time_cut raises.
TimeCutRaises ==
    /\ pc = "bin_pointlike"
    /\ Len(bands) < Len(time.starts)
    /\ run = 1
    /\ LET k == Len(bands) + 1
           tstart == time.starts[k]
           tstop == time.stops[k]
       IN  /\ bands' = Append(bands,
                 [tstart |-> tstart, tstop |-> tstop,
                  days |-> days_of(tstart, tstop)])
           /\ subdirs' = subdirs \cup { << tstart, tstop >> }
    /\ exc' = Some("time_cut")
    /\ pc' = raise_to("time_cut")
    /\ UNCHANGED << settled, replay, stepvars, nfit, calls, ul_calls >>

\* The freezing that precedes the first fit.  In each_time_fit_pointlike the
\* background is frozen through the name roi, which that method does not
\* bind: with a background source to freeze the statement raises NameError.
Freeze ==
    /\ pc = "freeze"
    /\ LET s == Get(roi_state)
           k == Len(bands)
           unbound == /\ ~ refit_background
                      /\ s.type = "pointlike"
                      /\ background_sources # { }
           frozen == [s EXCEPT
                        !.background = IF refit_background
                                           \/ background_sources = { }
                                       THEN @ ELSE "frozen",
                        !.others = IF refit_other_sources
                                       \/ other_sources = { }
                                   THEN @ ELSE "frozen",
                        !.soi = "frozen"]
       IN  IF unbound
           THEN /\ exc' = Some("NameError")
                /\ pc' = raise_to("freeze")
                /\ UNCHANGED << roi_state, calls >>
           ELSE /\ roi_state' = Some(frozen)
                /\ calls' = Append(calls,
                      call(s.type, k, "freeze", frozen.soi, frozen.fits))
                /\ pc' = next_step("freeze")
                /\ exc' = exc
    /\ UNCHANGED << settled, replay, bands, subdirs, cur, res, nfit, ul_calls >>

\* a fit of the object as it stands
fitted(s) == [s EXCEPT !.fits = @ + 1, !.params = "bin"]

\* The first fit, and results['ll_0'] = ll().
Fit0 ==
    /\ pc = "fit_0"
    /\ LET s == fitted(Get(roi_state))
           k == Len(bands)
       IN  /\ roi_state' = Some(s)
           /\ res' = [res EXCEPT !.ll_0 = Some(ll(s, Get(cur)))]
           /\ calls' = calls \o << call(s.type, k, "fit", s.soi, s.fits),
                                   call(s.type, k, "ll_0", s.soi, s.fits) >>
    /\ nfit' = nfit + 1
    /\ pc' = next_step("fit_0")
    /\ UNCHANGED << settled, replay, exc, bands, subdirs, cur, ul_calls >>

\* allow_fit_only_prefactor(roi, name)
FreeNorm ==
    /\ pc = "free_norm"
    /\ LET s == [Get(roi_state) EXCEPT !.soi = "norm"]
       IN  /\ roi_state' = Some(s)
           /\ calls' = Append(calls,
                 call(s.type, Len(bands), "free_norm", s.soi, s.fits))
    /\ pc' = next_step("free_norm")
    /\ UNCHANGED << settled, replay, exc, bands, subdirs, cur, res, nfit,
                    ul_calls >>

\* The second fit, then ll_1, the flux and TS (quick=False / reoptimize=True).
Fit1 ==
    /\ pc = "fit_1"
    /\ LET s == fitted(Get(roi_state))
           k == Len(bands)
           o == Get(cur)
       IN  /\ roi_state' = Some(s)
           /\ res' = [res EXCEPT !.ll_1 = Some(ll(s, o)),
                                 !.flux = Some([flux |-> o.flux]),
                                 !.TS = Some(o.TS)]
           /\ calls' = calls \o << call(s.type, k, "fit", s.soi, s.fits),
                                   call(s.type, k, "ll_1", s.soi, s.fits),
                                   call(s.type, k, "flux", s.soi, s.fits),
                                   call(s.type, k, "TS_reoptimize", s.soi, s.fits) >>
    /\ nfit' = nfit + 1
    /\ pc' = next_step("fit_1")
    /\ UNCHANGED << settled, replay, exc, bands, subdirs, cur, ul_calls >>

\* A fit that raises.
FitRaises ==
    /\ pc \in { "fit_0", "fit_1" }
    /\ run = 1
    /\ exc' = Some("fit")
    /\ calls' = Append(calls,
          call(Get(roi_state).type, Len(bands), "fit_raises",
               Get(roi_state).soi, Get(roi_state).fits))
    /\ pc' = raise_to(pc)
    /\ UNCHANGED << settled, replay, stepvars, bands, subdirs, nfit, ul_calls >>

\* if TS < self.min_ts or self.always_upper_limit: ... else: ... = None
UpperLimit ==
    /\ pc = "upper_limit"
    /\ LET s == Get(roi_state)
           ts == Get(res.TS)
       IN  /\ res' = [res EXCEPT !.upper_limit =
                        IF needs_upper_limit(ts)
                        THEN Some(upper_limit_dict) ELSE None]
           /\ ul_calls' = ul_calls \o upper_limit_calls(s.type, Len(bands), ts)
    /\ pc' = next_step("upper_limit")
    /\ UNCHANGED << settled, replay, exc, bands, subdirs, roi_state, cur, nfit,
                    calls >>

\* return results
returned(r) ==
    [ll_0 |-> Get(r.ll_0), ll_1 |-> Get(r.ll_1), flux |-> Get(r.flux),
     TS |-> Get(r.TS), upper_limit |-> r.upper_limit]

\* band[type] = the returned results; after pointlike the gtlike fit follows
\* if enabled; after the last backend the bin's directory is removed unless
\* the data are kept, and the loop goes on.
EndFit ==
    /\ pc = "end_fit"
    /\ LET s == Get(roi_state)
           k == Len(bands)
           b == bands[k]
           more == s.type = "pointlike" /\ do_gtlike
       IN  /\ bands' = [bands EXCEPT ![k] =
                 IF s.type = "pointlike"
                 THEN [tstart |-> b.tstart, tstop |-> b.tstop, days |-> b.days,
                       pointlike |-> returned(res)]
                 ELSE [tstart |-> b.tstart, tstop |-> b.tstop, days |-> b.days,
                       pointlike |-> b.pointlike, gtlike |-> returned(res)]]
           /\ subdirs' = IF more \/ Get(save_data)
                         THEN subdirs
                         ELSE subdirs \ { << b.tstart, b.tstop >> }
           /\ pc' = IF more THEN "begin_gtlike" ELSE after_bin(k)
    /\ roi_state' = IF Get(roi_state).type = "pointlike" /\ do_gtlike
                    THEN roi_state ELSE None
    /\ cur' = None
    /\ res' = EmptyDict
    /\ UNCHANGED << settled, replay, exc, nfit, calls, ul_calls >>

\* each_time_fit_gtlike begins: a new Gtlike object built from the bin's
\* region, restored to the all-time best fit
BeginGtlike(Outcomes) ==
    /\ pc = "begin_gtlike"
    /\ \E o \in BinAnswers(Outcomes) : cur' = Some(o)
    /\ replay' = Consumed
    /\ roi_state' = Some(gtlike_start(Get(roi_state), Get(best_gtlike_state)))
    /\ res' = empty_results
    /\ pc' = "freeze"
    /\ UNCHANGED << settled, exc, bands, subdirs, nfit, calls, ul_calls >>

\* The all-time fit raises.
AllTimeFitRaises ==
    /\ pc = "all_time_fit"
    /\ run = 1
    /\ exc' = Some("fit")
    /\ calls' = Append(calls, call("pointlike", 0, "fit_raises", "free", 0))
    /\ roi' \in { roi, all_time_fitted(roi) }
    /\ pc' = raise_to("all_time_fit")
    /\ UNCHANGED << classifyvars, saved_state, best_gtlike_state, options,
                    nbins, tstarts, tstops, savedir, do_gtlike, ft1files,
                    save_data, earliest_time, latest_time, time, all_time,
                    TS_var, results, rerunvars, stepvars, bands, subdirs,
                    nfit, ul_calls >>

----------------------------------------------------------------------------
\* the name of the source of interest
name == "source"

\* a report that also records where the run kept its files
results_dict_with_savedir(ts) ==
    [name |-> name, min_ts |-> min_ts, time |-> time, bands |-> bands,
     all_time |-> all_time, TS_var |-> ts, savedir |-> savedir]

\* a report without the aggregate statistic
results_dict_without_TS_var(ts) ==
    [name |-> name, min_ts |-> min_ts, time |-> time, bands |-> bands,
     all_time |-> all_time]

\* self.results = dict(name=..., min_ts=..., time=..., bands=...,
\*                     all_time=..., TS_var=...)
results_dict(ts) ==
    [name |-> name, min_ts |-> min_ts, time |-> time, bands |-> bands,
     all_time |-> all_time, TS_var |-> ts]

\* After the loop: TS_var per backend and the report; back in __init__ the
\* snapshot is restored (saved_state.restore()) and the constructor returns.
Report ==
    /\ pc = "report"
    /\ roi' = Get(saved_state)
    /\ TS_var' = [t \in Backends(do_gtlike) |-> compute_TS_var(t, bands, all_time)]
    /\ results' = Some(results_dict(TS_var'))
    /\ pc' = "done"
    /\ UNCHANGED << classifyvars, saved_state, best_gtlike_state,
                    nbins, tstarts, tstops, savedir, do_gtlike, ft1files, exc,
                    save_data, earliest_time, latest_time, time, all_time,
                    bands, subdirs, nfit, options, stepvars, calls, ul_calls,
                    rerunvars >>

\* __del__: the object is collected after the constructor returned or raised;
\* without a savedir option the whole temporary directory is removed
Del ==
    /\ pc \in { "done", "raised" }
    /\ ~ IsNone(save_data)
    /\ subdirs' = IF Get(save_data) THEN subdirs ELSE { }
    /\ pc' = "deleted"
    /\ UNCHANGED << settled, replay, exc, bands, nfit, stepvars, calls,
                    ul_calls >>

\* the answers the backends gave to the per-bin fits of a finished run, in
\* the order they were asked for
RECURSIVE answers_of(_, _)
answers_of(bs, gt) ==
    IF bs = << >> THEN << >>
    ELSE LET b == Head(bs)
             a(r) == outcome(r.ll_0, r.ll_1, r.flux.flux, r.TS)
         IN  << a(b.pointlike) >>
                 \o (IF gt THEN << a(b.gtlike) >> ELSE << >>)
                 \o answers_of(Tail(bs), gt)

\* The constructor is called a second time on the same inputs, with backends
\* that answer as in the first run; the first report is kept for comparison.
Rerun ==
    /\ pc = "done"
    /\ run = 1
    /\ run' = 2
    /\ first_report' = results
    /\ replay' = [all_time |->
                     << all_time.pointlike.flux.flux,
                        IF do_gtlike THEN all_time.gtlike.flux.flux
                        ELSE all_time.pointlike.flux.flux >>,
                  fits |-> answers_of(bands, do_gtlike)]
    /\ savedir' = IF Get(save_data) THEN savedir ELSE None
    /\ pc' = "setup_savedir"
    /\ exc' = None
    /\ save_data' = None
    /\ earliest_time' = None
    /\ latest_time' = None
    /\ time' = EmptyDict
    /\ all_time' = EmptyDict
    /\ bands' = << >>
    /\ subdirs' = { }
    /\ nfit' = 0
    /\ TS_var' = EmptyDict
    /\ results' = None
    /\ roi_state' = None
    /\ cur' = None
    /\ res' = EmptyDict
    /\ calls' = << >>
    /\ ul_calls' = << >>
    /\ saved_state' = None
    /\ best_gtlike_state' = None
    /\ UNCHANGED << classifyvars, roi,
                    nbins, tstarts, tstops, do_gtlike, ft1files, options >>

Next ==
    \/ SetupSavedir(OneTempDir)
    \/ SetupTimeBins
    \/ AllTimeFit(OneFlux, OneFlux)
    \/ BinPointlike(OneOutcome)
    \/ BinGtlike(OneOutcome)
    \/ Report

NextTS ==
    \/ SetupSavedir(OneTempDir)
    \/ SetupTimeBins
    \/ AllTimeFit(PointlikeFluxes, GtlikeFluxes)
    \/ BinPointlike(PointlikeOutcomes)
    \/ BinGtlike(GtlikeOutcomes)
    \/ Report

NextWeight ==
    \/ SetupSavedir(OneTempDir)
    \/ SetupTimeBins
    \/ AllTimeFit(PointlikeFluxes, OneFlux)
    \/ BinPointlike(WeightOutcomes)
    \/ BinGtlike(OneOutcome)
    \/ Report

NextFit ==
    \/ SetupSavedir(OneTempDir)
    \/ SetupTimeBins
    \/ AllTimeFit(OneFlux, OneFlux)
    \/ AllTimeFitRaises
    \/ BeginBin(FitOutcomes)
    \/ TimeCutRaises
    \/ Freeze
    \/ Fit0
    \/ FreeNorm
    \/ Fit1
    \/ FitRaises
    \/ UpperLimit
    \/ EndFit
    \/ BeginGtlike(FitOutcomes)
    \/ Report
    \/ Del

NextRerun ==
    \/ SetupSavedir(TwoTempDirs)
    \/ SetupTimeBins
    \/ AllTimeFit(OneFlux, GtlikeFluxes)
    \/ BinPointlike(RerunOutcomes)
    \/ BinGtlike(RerunOutcomes)
    \/ Report
    \/ Rerun

Spec == Init /\ [][Next]_vars
SpecTS == InitTS /\ [][NextTS]_vars
SpecWeight == InitTS /\ [][NextWeight]_vars
SpecFit == InitFit /\ [][NextFit]_vars
SpecRerun == InitRerun /\ [][NextRerun]_vars

----------------------------------------------------------------------------
\* The automatic classifier of lande.fermi.pipeline.pwncat2.interp.classify
\* and its older version in lande.pipeline.pwncat2.interp.classify.

allowed_source_class == { "Pulsar", "PWN", "Confused", "Upper_Limit" }
allowed_spatial_models == { "At_Pulsar", "Point", "Extended" }
allowed_spectral_models == { "FileFunction", "PowerLaw", "PLSuperExpCutoff" }

\* the gtlike results the classifier reads: TS['reoptimize'] of the point
\* and of the extended hypothesis, test_cutoff['TS_cutoff'] where the cutoff
\* test has one, and the name of the spectrum
gtlike_results(point, extended, cutoff, spectrum) ==
    [point_TS |-> point, extended_TS |-> extended, TS_cutoff |-> cutoff,
     spectrum |-> spectrum]

PointTS == { -1, 25, 26, 60 }
ExtensionTS == { -1, 16, 17 }
CutoffTS == { None, Some(-1), Some(16), Some(17) }
SpectrumNames == { "PowerLaw", "FileFunction" }

\* max(x, 0)
max0(x) == IF x > 0 THEN x ELSE 0

\* try: ts_cutoff = max(cutoff['TS_cutoff'],0) / except: ts_cutoff = None
ts_cutoff_of(r) ==
    IF IsNone(r.TS_cutoff) THEN None ELSE Some(max0(Get(r.TS_cutoff)))

\* x > n under Python 2, where None compares below every number
greater(x, n) == ~ IsNone(x) /\ Get(x) > n

\* get_classification with ts_point >= 25 in the place of ts_point > 25
get_classification_from_25(r) ==
    LET ts_point == max0(r.point_TS)
        ts_ext == max0(r.extended_TS - r.point_TS)
        ts_cutoff == ts_cutoff_of(r)
    IN  IF ts_point >= 25
        THEN [source_class |-> IF greater(ts_cutoff, 16)
                               THEN "Pulsar" ELSE "Confused",
              spatial_model |-> IF ts_ext > 16 THEN "Extended" ELSE "Point",
              spectral_model |-> IF greater(ts_cutoff, 16)
                                 THEN "PLSuperExpCutoff" ELSE r.spectrum]
        ELSE [source_class |-> "Upper_Limit", spatial_model |-> "At_Pulsar",
              spectral_model |-> r.spectrum]

\* PWNAutomaticClassifier.get_classification
get_classification(r) ==
    LET ts_point == max0(r.point_TS)
        ts_ext == max0(r.extended_TS - r.point_TS)
        ts_cutoff == ts_cutoff_of(r)
    IN  IF ts_point > 25
        THEN [source_class |-> IF greater(ts_cutoff, 16)
                               THEN "Pulsar" ELSE "Confused",
              spatial_model |-> IF ts_ext > 16 THEN "Extended" ELSE "Point",
              spectral_model |-> IF greater(ts_cutoff, 16)
                                 THEN "PLSuperExpCutoff" ELSE r.spectrum]
        ELSE [source_class |-> "Upper_Limit", spatial_model |-> "At_Pulsar",
              spectral_model |-> r.spectrum]

\* PWNClassifier.get_automatic_clasification of the older module
get_automatic_clasification(r) ==
    LET ts_point == max0(r.point_TS)
        ts_ext == max0(r.extended_TS - r.point_TS)
        ts_cutoff == ts_cutoff_of(r)
    IN  IF ts_point > 25
        THEN IF greater(ts_cutoff, 16)
             THEN [source_class |-> "Pulsar", spatial_model |-> "Point",
                   spectral_model |-> "PLSuperExpCutoff"]
             ELSE IF ts_ext > 16
                  THEN [source_class |-> "Confused",
                        spatial_model |-> "Extended",
                        spectral_model |-> r.spectrum]
                  ELSE [source_class |-> "Confused", spatial_model |-> "Point",
                        spectral_model |-> r.spectrum]
        ELSE [source_class |-> "Upper_Limit", spatial_model |-> "At_Pulsar",
              spectral_model |-> r.spectrum]

\* Classifier runs: one source's results, no variability test in progress.
InitClassify ==
    /\ \E p \in PointTS, d \in ExtensionTS, c \in CutoffTS, s \in SpectrumNames :
          pwn_results = Some(gtlike_results(p, p + d, c, s))
    /\ classification = None
    /\ old_classification = None
    /\ nbins = None
    /\ tstarts = None
    /\ tstops = None
    /\ savedir = None
    /\ do_gtlike = TRUE
    /\ ft1files = [list |-> << FileA, FileB >>]
    /\ DefaultOptions
    /\ FirstRun
    /\ pc = "classify"
    /\ exc = None
    /\ save_data = None
    /\ earliest_time = None
    /\ latest_time = None
    /\ time = EmptyDict
    /\ all_time = EmptyDict
    /\ bands = << >>
    /\ subdirs = { }
    /\ nfit = 0
    /\ TS_var = EmptyDict
    /\ results = None
    /\ roi_state = None
    /\ cur = None
    /\ res = EmptyDict
    /\ calls = << >>
    /\ ul_calls = << >>
    /\ roi = roi_on_entry
    /\ saved_state = None
    /\ best_gtlike_state = None

\* what a classifier call leaves alone
unclassified ==
    << nbins, tstarts, tstops, savedir, do_gtlike, ft1files, pc, exc,
       save_data, earliest_time, latest_time, time, all_time, bands, subdirs,
       nfit, TS_var, results, options, stepvars, calls, ul_calls, rerunvars,
       roivars, pwn_results >>

\* the classifier is asked for the source's classification
GetClassification ==
    /\ pc = "classify"
    /\ IsNone(classification)
    /\ classification' = Some(get_classification(Get(pwn_results)))
    /\ UNCHANGED << unclassified, old_classification >>

\* the older classifier is asked for the same source's classification
GetAutomaticClasification ==
    /\ pc = "classify"
    /\ IsNone(old_classification)
    /\ old_classification' = Some(get_automatic_clasification(Get(pwn_results)))
    /\ UNCHANGED << unclassified, classification >>

NextClassify ==
    \/ GetClassification
    \/ GetAutomaticClasification

SpecClassify == InitClassify /\ [][NextClassify]_vars

----------------------------------------------------------------------------
\* Properties of the aggregation (checked under SpecTS).
Done == pc = "done"

\* the arrays compute_TS_var reads for a backend
FluxOf(t) == [j \in 1..Len(bands) |-> bands[j][t].flux.flux]
F0Of(t) == all_time[t].flux.flux
\* 2*(ll_1 - ll_0) of bin j, from the numerators and denominators
RawStatistic(t, j) ==
    LET l1 == bands[j][t].ll_1
        l0 == bands[j][t].ll_0
    IN  Norm(2 * (l1[1] * l0[2] - l0[1] * l1[2]), l1[2] * l0[2])
\* df^2/(df^2 + f^2*F0^2) for F = a/b and F0 = c/d, in closed form:
\* 2500*(a*d - c*b)^2 / (2500*(a*d - c*b)^2 + (c*b)^2); 1 where that quotient
\* is not a number
Weight(F, F0) ==
    LET num == 2500 * (F[1] * F0[2] - F0[1] * F[2]) * (F[1] * F0[2] - F0[1] * F[2])
        den == num + (F0[1] * F[2]) * (F0[1] * F[2])
    IN  IF IsNaN(F) \/ IsNaN(F0) \/ den = 0 THEN Flt(1) ELSE Norm(num, den)

RECURSIVE WeightedSum(_, _)
WeightedSum(t, n) ==
    IF n = 0 THEN Flt(0)
    ELSE FAdd(WeightedSum(t, n - 1),
              FMul(RawStatistic(t, n), Weight(FluxOf(t)[n], F0Of(t))))

\* C1: after a run TS_var has exactly one entry per backend that was run, and
\* the entry of a backend is the sum over the bins of 2*(ll_1 - ll_0)*w with
\* w = df^2/(df^2 + f^2*F0^2), df = F_bin - F0, f = 0.02, all taken from that
\* backend's own per-bin and all-time values.
C1_TSvarPerBackend ==
    Done =>
        /\ DOMAIN TS_var = Backends(do_gtlike)
        /\ \A t \in DOMAIN TS_var : TS_var[t] = WeightedSum(t, Len(bands))

C1_Witness ==
    /\ Done
    /\ do_gtlike
    /\ Len(bands) = 2
    /\ TS_var.pointlike = << 7501, 2501 >>
    /\ TS_var.gtlike = << 36, 5 >>

\* C2: a bin whose flux deviation is not-a-number has weight 1 and adds its
\* raw statistic 2*(ll_1 - ll_0) to TS_var, and TS_var is a number whenever
\* every ll_0 and ll_1 is one.
C2_NaNFluxUndamped ==
    Done =>
        \A t \in DOMAIN TS_var :
            LET gf == good_fraction(FluxOf(t), F0Of(t))
                ds == damped_statistic(t, bands, all_time)
                nan == { j \in 1..Len(bands) : IsNaN(FSub(FluxOf(t)[j], F0Of(t))) }
            IN  /\ \A j \in nan : gf[j] = Flt(1) /\ ds[j] = RawStatistic(t, j)
                /\ TS_var[t] = np_sum([j \in 1..Len(bands) |->
                                         IF j \in nan THEN RawStatistic(t, j) ELSE ds[j]])
                /\ (\A j \in 1..Len(bands) :
                        bands[j][t].ll_0[2] # 0 /\ bands[j][t].ll_1[2] # 0)
                   => TS_var[t][2] # 0

C2_Witness ==
    /\ Done
    /\ Len(bands) = 2
    /\ IsNaN(bands[1].pointlike.flux.flux)
    /\ bands[1].pointlike.ll_1 # bands[1].pointlike.ll_0
    /\ bands[2].pointlike.flux.flux = Flt(51)
    /\ all_time.pointlike.flux.flux = Flt(50)
    /\ TS_var.pointlike = Flt(3)

\* C3 as stated: a bin whose flux equals the all-time flux has weight 0 and
\* adds 0 to TS_var, whatever the all-time flux and the likelihoods.
C3_ZeroDeviationZeroWeight ==
    Done =>
        \A t \in DOMAIN TS_var :
            /\ \A j \in 1..Len(bands) :
                  (~ IsNaN(F0Of(t)) /\ FluxOf(t)[j] = F0Of(t)) =>
                      /\ good_fraction(FluxOf(t), F0Of(t))[j] = Flt(0)
                      /\ damped_statistic(t, bands, all_time)[j] = Flt(0)
            /\ (\A j \in 1..Len(bands) :
                  ~ IsNaN(F0Of(t)) /\ FluxOf(t)[j] = F0Of(t)) => TS_var[t] = Flt(0)

\* C4: with a single bin whose ll_1 equals ll_0, TS_var is 0 whatever the
\* bin's flux (equal to the all-time flux, different, undefined) and whatever
\* the all-time flux.
C4_EqualLikelihoodsGiveZero ==
    (Done /\ Len(bands) = 1) =>
        \A t \in DOMAIN TS_var :
            bands[1][t].ll_1 = bands[1][t].ll_0 => TS_var[t] = Flt(0)

C4_Witness ==
    /\ Done
    /\ Len(bands) = 1
    /\ bands[1].pointlike.ll_1 = bands[1].pointlike.ll_0
    /\ IsNaN(bands[1].pointlike.flux.flux)
    /\ TS_var.pointlike = Flt(0)

----------------------------------------------------------------------------
\* Properties of the time-bin planning (checked under Spec).
Planned == pc \notin { "setup_savedir", "setup_time_bins", "raised" }
\* planned from nbins: a run with tstarts or tstops given is either refused
\* or planned from them
NbinsMode == Planned /\ IsNone(tstarts) /\ IsNone(tstops)
ExplicitMode == Planned /\ ~ IsNone(tstarts) /\ ~ IsNone(tstops)

\* the integer i is a nearest integer of the fraction x
Nearest(i, x) == i \in Int /\ 2 * Abs(i * x[2] - x[1]) <= x[2]
\* the integer i is the fraction x with its fractional part dropped
Truncated(i, x) ==
    /\ i \in Int
    /\ x[1] >= 0 => (i * x[2] <= x[1] /\ x[1] < (i + 1) * x[2])
    /\ x[1] < 0 => ((i - 1) * x[2] < x[1] /\ x[1] <= i * x[2])

\* earliest + k*(latest - earliest)/n as a fraction
ExactEdge(k, n) ==
    LET e == Get(earliest_time)
        l == Get(latest_time)
    IN  << e[1] * l[2] * n + k * (l[1] * e[2] - e[1] * l[2]), e[2] * l[2] * n >>

\* C5: from nbins the planner makes exactly nbins bins with integer edges,
\* the stop of each bin the start of the next, the first start the rounded
\* earliest time and the last stop the rounded latest time.
C5_UniformPartition ==
    NbinsMode =>
        LET n == Get(nbins)
        IN  /\ Len(time.starts) = n
            /\ Len(time.stops) = n
            /\ \A k \in 1..n : time.starts[k] \in Int /\ time.stops[k] \in Int
            /\ \A k \in 1..(n - 1) : time.stops[k] = time.starts[k + 1]
            /\ Nearest(time.starts[1], Get(earliest_time))
            /\ Nearest(time.stops[n], Get(latest_time))

C5_Witness ==
    /\ NbinsMode
    /\ nbins = Some(3)
    /\ earliest_time = Some(<< 3, 2 >>)
    /\ time.starts = << 2, 2, 3 >>
    /\ time.stops = << 2, 3, 4 >>

\* C6: from nbins, edge k (k = 0..nbins) is earliest + k*(latest-earliest)/nbins
\* rounded to a nearest integer second, and bin k runs from edge k to edge k+1.
C6_EdgesAreRoundedLinear ==
    NbinsMode =>
        LET n == Get(nbins)
        IN  \A k \in 1..Len(time.starts) :
                /\ Nearest(time.starts[k], ExactEdge(k - 1, n))
                /\ Nearest(time.stops[k], ExactEdge(k, n))

C6_Witness ==
    /\ NbinsMode
    /\ nbins = Some(3)
    /\ earliest_time = Some(Flt(0))
    /\ latest_time = Some(Flt(4))
    /\ time.starts = << 0, 1, 3 >>
    /\ time.stops = << 1, 3, 4 >>

\* C7 as stated: every bin of the uniform partition has start < stop, for
\* every nbins >= 1 and every span with earliest < latest.
C7_UniformBinsNonEmpty ==
    (NbinsMode /\ FLess(Get(earliest_time), Get(latest_time))) =>
        \A k \in 1..Len(time.starts) : time.starts[k] < time.stops[k]

\* the two combinations of options the planner accepts
ValidOptions(nb, ts, tp) ==
    \/ ~ IsNone(nb) /\ IsNone(ts) /\ IsNone(tp)
    \/ IsNone(nb) /\ ~ IsNone(ts) /\ ~ IsNone(tp)

\* C8: of the eight present/absent combinations of (nbins, tstarts, tstops)
\* the planner accepts "nbins only" and "tstarts and tstops only" and raises
\* the configuration error for the other six; no fit has been called on any
\* backend when an error is raised.
C8_ConfigurationErrors ==
    [][ /\ pc = "setup_time_bins" =>
             /\ (exc' = Some("Exception")) <=> ~ ValidOptions(nbins, tstarts, tstops)
             /\ (~ IsNone(nbins) /\ IsNone(tstarts) /\ IsNone(tstops))
                    => pc' = "all_time_fit"
             /\ (IsNone(nbins) /\ ~ IsNone(tstarts) /\ ~ IsNone(tstops))
                    => (pc' = "all_time_fit" <=> Len(Get(tstarts)) = Len(Get(tstops)))
        /\ pc' = "raised" => nfit' = 0
      ]_vars

C8_Witness ==
    /\ pc = "raised"
    /\ exc = Some("Exception")
    /\ ~ IsNone(nbins) /\ ~ IsNone(tstarts) /\ ~ IsNone(tstops)
    /\ nfit = 0

\* a run given tstarts and tstops and not refused for its options
GivenExplicit ==
    /\ pc \notin { "setup_savedir", "setup_time_bins" }
    /\ ~ IsNone(tstarts) /\ ~ IsNone(tstops)
    /\ exc # Some("Exception")

\* C9 as stated: lists of different lengths are rejected; otherwise nbins is
\* their length and the bins are exactly the pairs (tstarts[i], tstops[i]) in
\* the caller's order.
C9_ExplicitBinsAsGiven ==
    GivenExplicit =>
        IF Len(Get(tstarts)) # Len(Get(tstops))
        THEN pc = "raised"
        ELSE /\ pc # "raised"
             /\ nbins = Some(Len(Get(tstarts)))
             /\ Len(time.starts) = Len(Get(tstarts))
             /\ Len(time.stops) = Len(Get(tstops))
             /\ \A j \in 1..Len(Get(tstarts)) :
                    /\ Flt(time.starts[j]) = Get(tstarts)[j]
                    /\ Flt(time.stops[j]) = Get(tstops)[j]

\* C9, amended: lists of different lengths are rejected; otherwise nbins is
\* their length and the bins are the pairs (tstarts[i], tstops[i]) in the
\* caller's order, each time converted to an integer second by dropping its
\* fractional part; nothing is sorted and no contiguity is required.
C9_ExplicitBinsTruncated ==
    GivenExplicit =>
        IF Len(Get(tstarts)) # Len(Get(tstops))
        THEN pc = "raised" /\ exc = Some("AssertionError")
        ELSE /\ pc # "raised"
             /\ nbins = Some(Len(Get(tstarts)))
             /\ Len(time.starts) = Len(Get(tstarts))
             /\ Len(time.stops) = Len(Get(tstops))
             /\ \A j \in 1..Len(Get(tstarts)) :
                    /\ Truncated(time.starts[j], Get(tstarts)[j])
                    /\ Truncated(time.stops[j], Get(tstops)[j])

C9_Witness ==
    /\ ExplicitMode
    /\ tstarts = Some(<< Flt(4), << 3, 2 >> >>)
    /\ tstops = Some(<< << 3, 2 >>, Flt(4) >>)
    /\ nbins = Some(2)
    /\ time.starts = << 4, 1 >>
    /\ time.stops = << 1, 4 >>

\* the START and the STOP values of every row of every event file
AllRows ==
    IF IsList(ft1files)
    THEN UNION { { ft1files.list[j][r] : r \in 1..Len(ft1files.list[j]) } :
                   j \in 1..Len(ft1files.list) }
    ELSE { ft1files.file[r] : r \in 1..Len(ft1files.file) }

\* C10: the time range of a list of event files is (the least START of any
\* file, the greatest STOP of any file); of a single file, that file's
\* (least START, greatest STOP).
C10_TimeRange ==
    (~ IsNone(earliest_time) /\ ~ IsNone(latest_time)) =>
        /\ \E r \in AllRows : r.START = Get(earliest_time)
        /\ \A r \in AllRows : ~ FLess(r.START, Get(earliest_time))
        /\ \E r \in AllRows : r.STOP = Get(latest_time)
        /\ \A r \in AllRows : ~ FLess(Get(latest_time), r.STOP)

C10_Witness ==
    /\ Planned
    /\ ft1files = [list |-> << FileB, FileA >>]
    /\ earliest_time = Some(Flt(0))
    /\ latest_time = Some(Flt(4))


----------------------------------------------------------------------------
\* Properties of the per-bin fit (stepwise runs).

\* the calls made on a backend's per-bin objects
BinCalls == { i \in 1..Len(calls) : calls[i].bin > 0 }

\* the per-bin fit whose results are complete but not yet stored
Fitted == pc \in { "upper_limit", "end_fit" }

\* C11: in every per-bin fit, on either backend, the source of interest is
\* frozen, a fit is made and ll_0 is read while it is still frozen; only then
\* is its normalization freed, a second fit made, and ll_1, the flux and the
\* reoptimized TS read.  ll_0 is never read after the normalization is freed
\* and ll_1 never before the second fit; the values recorded are the frozen-fit
\* likelihood and the freed-fit likelihood, flux and TS.
C11_FitOrder ==
    /\ \A i \in BinCalls :
          LET c == calls[i]
          IN  /\ c.op = "freeze" => c.fits = 0 /\ c.soi = "frozen"
              /\ c.op = "fit" => \/ c.fits = 1 /\ c.soi = "frozen"
                                 \/ c.fits = 2 /\ c.soi = "norm"
              /\ c.op = "ll_0" => c.fits = 1 /\ c.soi = "frozen"
              /\ c.op = "free_norm" =>
                    /\ c.fits = 1
                    /\ i > 1
                    /\ calls[i - 1].op = "ll_0"
                    /\ calls[i - 1].type = c.type
                    /\ calls[i - 1].bin = c.bin
              /\ c.op \in { "ll_1", "flux", "TS_reoptimize" } =>
                    c.fits = 2 /\ c.soi = "norm"
    /\ Fitted =>
          /\ res.ll_0 = Some(Get(cur).ll_0)
          /\ res.ll_1 = Some(Get(cur).ll_1)
          /\ res.flux = Some([flux |-> Get(cur).flux])
          /\ res.TS = Some(Get(cur).TS)

\* the gtlike fit of the second bin has recorded distinct ll_0 and ll_1
C11_Witness ==
    /\ pc = "end_fit"
    /\ Get(roi_state).type = "gtlike"
    /\ Len(bands) = 2
    /\ res.ll_0 = Some(Flt(-3))
    /\ res.ll_1 = Some(Flt(-1))
    /\ \E i \in BinCalls :
          calls[i] = call("gtlike", 2, "TS_reoptimize", "norm", 2)

\* C12: for each of refit_background and refit_other_sources, and on each
\* backend: when the flag is false the corresponding sources are frozen
\* before the first per-bin fit, when it is true they are left free, and in
\* both cases the preparation does not raise.
C12_FreezeFlags ==
    /\ pc = "fit_0" =>
          /\ Get(roi_state).background
                = (IF refit_background THEN "free" ELSE "frozen")
          /\ Get(roi_state).others
                = (IF refit_other_sources THEN "free" ELSE "frozen")
    /\ exc # Some("NameError")

\* the per-bin results stored so far, as (bin, backend) pairs
Stored ==
    { << k, t >> \in (1..Len(bands)) \X { "pointlike", "gtlike" } :
         t \in DOMAIN bands[k] }

\* the upper-limit computations asked of backend t for bin k
LimitsAsked(k, t) ==
    { i \in 1..Len(ul_calls) : ul_calls[i].type = t /\ ul_calls[i].bin = k }

\* C13: a per-bin result has a non-null upper_limit exactly when its TS is
\* below min_ts or always_upper_limit is set, and then the upper limit was
\* computed once; otherwise upper_limit is None and no upper limit was
\* computed for that bin and backend.
C13_UpperLimitWhenFaint ==
    \A p \in Stored :
       LET r == bands[p[1]][p[2]]
           faint == FLess(r.TS, Flt(min_ts)) \/ always_upper_limit
       IN  /\ (r.upper_limit # None) <=> faint
           /\ Cardinality(LimitsAsked(p[1], p[2])) = (IF faint THEN 1 ELSE 0)

\* one bin with TS = min_ts on pointlike (no upper limit) and TS below it on
\* gtlike (upper limit computed)
C13_Witness ==
    /\ ~ always_upper_limit
    /\ << 1, "gtlike" >> \in Stored
    /\ bands[1].pointlike.TS = Flt(min_ts)
    /\ bands[1].pointlike.upper_limit = None
    /\ bands[1].gtlike.TS = Flt(0)
    /\ bands[1].gtlike.upper_limit # None
    /\ LimitsAsked(1, "pointlike") = { }
    /\ LimitsAsked(1, "gtlike") # { }

\* C14: every upper limit is computed at the configured confidence level
\* ul_confidence, on both backends.
C14_ConfiguredConfidence ==
    \A i \in 1..Len(ul_calls) : ul_calls[i].cl = ul_confidence

----------------------------------------------------------------------------
\* Properties of the run as a whole.

\* C15 as stated: the final report contains, besides the all-time fit, the
\* per-bin results and TS_var, a sigma obtained from TS_var and nbins.
C15_ReportHasSigma ==
    results # None => "sigma" \in DOMAIN Get(results)

\* C15: the final report consists of name, min_ts, time, bands, all_time and
\* TS_var: the all-time fit and TS_var with one entry per backend run, the
\* per-bin results in bands, and no sigma (the calibrator is not applied by
\* the run).
C15_ReportKeys ==
    results # None =>
       LET r == Get(results)
       IN  /\ DOMAIN r = { "name", "min_ts", "time", "bands", "all_time", "TS_var" }
           /\ DOMAIN r.TS_var = Backends(do_gtlike)
           /\ DOMAIN r.all_time = Backends(do_gtlike)
           /\ r.TS_var = TS_var
           /\ r.bands = bands
           /\ r.all_time = all_time
           /\ r.time = time
           /\ r.min_ts = min_ts

\* a finished two-backend run over two bins
C15_Witness ==
    /\ pc = "done"
    /\ do_gtlike
    /\ Len(bands) = 2
    /\ results # None
    /\ Get(results).TS_var.gtlike = << 32, 5 >>

\* the fits made on backend t for bin k (0: the all-time data)
FitsOf(k, t) ==
    { i \in 1..Len(calls) :
         calls[i].op = "fit" /\ calls[i].bin = k /\ calls[i].type = t }

\* the position of a backend in a pass
Rank(t) == IF t = "pointlike" THEN 1 ELSE 2

\* C16: the all-time fit is made exactly once per backend, before any per-bin
\* call; bins are processed one after another in the order of the time bins,
\* pointlike before gtlike, each bin fitted once per backend (one frozen and
\* one freed fit); the report's bands have the length and order of the time
\* bins, and its all-time results (the source of F0) are those of that single
\* all-time fit, unchanged since.
C16_OneAllTimeFitThenBinsInOrder ==
    /\ [](/\ \A t \in { "pointlike", "gtlike" } :
               /\ Cardinality(FitsOf(0, t)) <= 1
               /\ BinCalls # { } =>
                     Cardinality(FitsOf(0, t)) = (IF t \in Backends(do_gtlike) THEN 1 ELSE 0)
               /\ \A i \in FitsOf(0, t), j \in BinCalls : i < j
               /\ \A k \in 1..Len(bands) :
                     /\ Cardinality(FitsOf(k, t)) <= 2
                     /\ \A i, j \in FitsOf(k, t) :
                           calls[i].fits = calls[j].fits => i = j
          /\ \A i, j \in BinCalls :
                i < j =>
                   \/ calls[i].bin < calls[j].bin
                   \/ /\ calls[i].bin = calls[j].bin
                      /\ Rank(calls[i].type) <= Rank(calls[j].type)
          /\ \A k \in 1..Len(bands) :
                /\ k <= Len(time.starts)
                /\ bands[k].tstart = time.starts[k]
                /\ bands[k].tstop = time.stops[k]
          /\ results # None =>
                /\ Len(Get(results).bands) = Len(time.starts)
                /\ \A k \in 1..Len(bands), t \in Backends(do_gtlike) :
                      /\ << k, t >> \in Stored
                      /\ Cardinality(FitsOf(k, t)) = 2
                /\ Get(results).all_time = all_time)
    /\ [][all_time # EmptyDict => all_time' = all_time]_vars

\* a finished two-backend run over two explicit bins given latest first
C16_Witness ==
    /\ pc = "done"
    /\ do_gtlike
    /\ time.starts = << 4, 1 >>
    /\ Len(Get(results).bands) = 2
    /\ Get(results).bands[1].tstart = 4
    /\ Get(results).bands[2].tstart = 1
    /\ Cardinality(FitsOf(2, "gtlike")) = 2

\* every time bin has a stored result on every backend of the run
AllBinsFitted ==
    /\ Len(bands) = Len(time.starts)
    /\ \A k \in 1..Len(bands), t \in Backends(do_gtlike) : << k, t >> \in Stored

\* C17: the report exists only when every bin has been fitted on every
\* enabled backend and nothing has raised; when the all-time fit, a time cut
\* or a per-bin fit raises, the run is over with that failure: no report is
\* built, and no further band, call or fit follows.
C17_FailureAborts ==
    /\ [](/\ results # None => exc = None /\ AllBinsFitted
          /\ exc # None => pc \in { "raised", "deleted" } /\ results = None)
    /\ [][exc # None =>
             /\ exc' = exc
             /\ bands' = bands
             /\ calls' = calls
             /\ ul_calls' = ul_calls
             /\ nfit' = nfit
             /\ results' = None]_vars

\* the freed fit of the first of two bins raised on gtlike
C17_Witness ==
    /\ pc = "raised"
    /\ exc = Some("fit")
    /\ Len(time.starts) = 2
    /\ Len(bands) = 1
    /\ calls[Len(calls)] = call("gtlike", 1, "fit_raises", "norm", 1)
    /\ results = None

\* the per-bin directories made so far
Made == { << bands[k].tstart, bands[k].tstop >> : k \in 1..Len(bands) }

\* C18: when no savedir was given, every per-bin directory that was made has
\* been removed whenever the constructor is left, by return or by an
\* exception of a time cut or a fit; when a savedir was given none is removed.
C18_DirsRemovedOnEveryExit ==
    /\ pc \in { "done", "raised" } /\ save_data = Some(FALSE) => subdirs = { }
    /\ save_data = Some(TRUE) => subdirs = Made

----------------------------------------------------------------------------
\* Properties of repeated runs.

\* C19: a second run on identical inputs, with backends that return the same
\* values as in the first, produces a report identical to the first one.
C19_SameInputsSameReport ==
    run = 2 /\ pc = "done" => results = first_report

\* the second of two runs over two bins on both backends, one answer with a
\* flux that is not a number, has finished
C19_Witness ==
    /\ run = 2
    /\ pc = "done"
    /\ do_gtlike
    /\ Len(bands) = 2
    /\ IsNaN(bands[2].gtlike.flux.flux)
    /\ ~ Get(save_data)
    /\ results = first_report

----------------------------------------------------------------------------
\* Properties of the model state the fits work on.

\* the model state of the fitting object of the per-bin fit in progress
StateOf(s) == model_state(s.soi, s.background, s.others, s.params)

\* a per-bin fit on backend t is about to begin
Starting(t) ==
    /\ pc = "freeze"
    /\ Get(roi_state).type = t

C23_DaysFractional ==
    \A k \in 1..Len(bands) :
       Flt(bands[k].days)
          = FDiv(Flt(bands[k].tstop - bands[k].tstart), Flt(60 * 60 * 24))

----------------------------------------------------------------------------
\* Properties of the damping weight (checked under SpecWeight).

\* |x| and x <= y for numbers
FAbs(x) == << Abs(x[1]), x[2] >>
FLeq(x, y) == ~ FLess(y, x)

\* the bins of backend t whose flux and all-time flux are numbers
Defined(t) ==
    { j \in 1..Len(bands) : ~ IsNaN(FluxOf(t)[j]) /\ ~ IsNaN(F0Of(t)) }

\* |df| of bin j
Deviation(t, j) == FAbs(FSub(FluxOf(t)[j], F0Of(t)))

\* C24: for every bin whose flux and all-time flux are numbers, the damping
\* weight is at least 0 and at most 1; the bin's damped contribution is never
\* of the opposite sign to its raw statistic 2*(ll_1 - ll_0) and never larger
\* in absolute value; and between two bins of a backend (same F0), the one
\* with the larger |df| never has the smaller weight.
C24_WeightInUnitInterval ==
    Done =>
       \A t \in Backends(do_gtlike) :
          LET w == good_fraction(FluxOf(t), F0Of(t))
              damped == damped_statistic(t, bands, all_time)
          IN  /\ \A j \in Defined(t) :
                    /\ FLeq(Flt(0), w[j])
                    /\ FLeq(w[j], Flt(1))
                    /\ FLeq(Flt(0), FMul(damped[j], RawStatistic(t, j)))
                    /\ FLeq(FAbs(damped[j]), FAbs(RawStatistic(t, j)))
              /\ \A i, j \in Defined(t) :
                    FLeq(Deviation(t, i), Deviation(t, j)) => FLeq(w[i], w[j])

\* one bin below ll_0 with a small deviation and one above it with a larger
\* deviation: weights 1/2 and 4/5, contributions -1 and 8/5
C24_Witness ==
    /\ Done
    /\ Len(bands) = 2
    /\ F0Of("pointlike") = Flt(50)
    /\ bands[1].pointlike.flux.flux = Flt(49)
    /\ bands[1].pointlike.ll_1 = Flt(-4)
    /\ bands[2].pointlike.flux.flux = Flt(52)
    /\ bands[2].pointlike.ll_1 = Flt(-2)
    /\ good_fraction(FluxOf("pointlike"), F0Of("pointlike")) = << << 1, 2 >>, << 4, 5 >> >>
    /\ damped_statistic("pointlike", bands, all_time) = << Flt(-1), << 8, 5 >> >>

\* C25: the caller's region is snapshotted before the all-time fit and
\* restored after the variability test: whenever the constructor is left, by
\* return or by an exception of the all-time fit or of a bin fit, the region's
\* model state equals its state on entry.
C25_RoiRestoredOnEveryExit ==
    pc \in { "done", "raised" } =>
       roi = model_state("free", "free", "free", "entry")

----------------------------------------------------------------------------
\* Properties of the classifier (checked under SpecClassify).

\* the statistics the classifier derives from a source's results
TsPoint == max0(Get(pwn_results).point_TS)
TsExt == max0(Get(pwn_results).extended_TS - Get(pwn_results).point_TS)
CutoffSignificant ==
    /\ ~ IsNone(Get(pwn_results).TS_cutoff)
    /\ max0(Get(pwn_results).TS_cutoff[1]) > 16

\* what get_classification returns, as stated for the newer classifier
Classified(c) ==
    /\ (c.source_class = "Upper_Limit") <=> (TsPoint <= 25)
    /\ (c.spatial_model = "At_Pulsar") <=> (TsPoint <= 25)
    /\ TsPoint > 25 =>
          /\ (c.source_class = "Pulsar") <=> CutoffSignificant
          /\ (c.spectral_model = "PLSuperExpCutoff") <=> CutoffSignificant
          /\ ~ CutoffSignificant => c.source_class = "Confused"
          /\ (c.spatial_model = "Extended") <=> (TsExt > 16)
          /\ ~ (TsExt > 16) => c.spatial_model = "Point"
    /\ c.source_class \in allowed_source_class
    /\ c.spatial_model \in allowed_spatial_models
    /\ c.source_class # "PWN"

\* a source that is significant, has a significant cutoff and is extended
ExtendedPulsar == TsPoint > 25 /\ CutoffSignificant /\ TsExt > 16

\* C26 as stated: get_classification classifies by the thresholds 25 and 16
\* as described, within the allowed lists and never as PWN, and the older
\* get_automatic_clasification returns the same classification for every
\* input.
C26_ClassifiersAgree ==
    /\ ~ IsNone(classification) => Classified(Get(classification))
    /\ ~ IsNone(classification) /\ ~ IsNone(old_classification) =>
          old_classification = classification

\* C26: get_classification classifies by the thresholds 25 and 16 as
\* described, within the allowed lists and never as PWN; the older
\* get_automatic_clasification returns the same source_class and
\* spectral_model for every input, and the same spatial_model except for an
\* extended pulsar (ts_point > 25, ts_cutoff > 16, ts_ext > 16), which it
\* reports as 'Point' where get_classification reports 'Extended'.
C26_ClassifiersAgreeButForExtendedPulsars ==
    /\ ~ IsNone(classification) => Classified(Get(classification))
    /\ ~ IsNone(classification) /\ ~ IsNone(old_classification) =>
          LET new == Get(classification)
              old == Get(old_classification)
          IN  /\ old.source_class = new.source_class
              /\ old.spectral_model = new.spectral_model
              /\ IF ExtendedPulsar
                 THEN old.spatial_model = "Point" /\ new.spatial_model = "Extended"
                 ELSE old.spatial_model = new.spatial_model

\* both classifiers have classified an extended pulsar
C26_Witness ==
    /\ ExtendedPulsar
    /\ classification
          = Some([source_class |-> "Pulsar", spatial_model |-> "Extended",
                  spectral_model |-> "PLSuperExpCutoff"])
    /\ old_classification
          = Some([source_class |-> "Pulsar", spatial_model |-> "Point",
                  spectral_model |-> "PLSuperExpCutoff"])
=============================================================================
